---- MODULE Spec2Model ----
(***************************************************************************)
(* A model of the streaming worksheet writer of excelize (stream.go):      *)
(* the bufferedWriter that spills to a temp file, the cell encoder, the    *)
(* SetRow emitter, the getRowValues scanner and StreamWriter.Flush.        *)
(*                                                                         *)
(* Unit of content.  The buffer holds a sequence of elements.  In the      *)
(* StreamWriter specification an element is one piece of markup (a token   *)
(* record, see Tok); in the bufferedWriter specification it is one byte.   *)
(* Lengths, the spill threshold and capacities are counted in elements.    *)
(***************************************************************************)
EXTENDS Integers, Sequences, FiniteSets, TLC

\* ------------------------------------------------------------------ bounds

\* Number of StreamWriter calls (SetRow, getRowValues, Flush) in a behaviour.
MaxOps == 3
\* Highest row number given to SetRow.
MaxRow == 2
\* Number of bytes written in a behaviour of the bufferedWriter specification.
MaxTotal == 17
\* Longest single Write of the bufferedWriter specification.
MaxWrite == 3
\* Number of calls of a behaviour that meet a storage fault.
MaxFaults == 1
\* Number of StreamWriter calls (SetRow, AddTable, Flush) in a behaviour of
\* the table specification.
MaxTableOps == 4
\* Number of SetRow calls in a behaviour of the cell encoder specification.
MaxEncOps == 2

\* ------------------------------------------------------- program constants

\* const chunk = 1 << 24 in Sync, scaled to the element unit of the model.
chunk == 8
\* The column limit of CoordinatesToCellName (16384 in the library), scaled.
TotalColumns == 3
\* The width in bits of int, the type setCellIntFunc converts to (64 on the
\* platforms the library is built for), scaled; uint and uint64 have the same
\* width.
IntBits == 8

Min(a, b) == IF a < b THEN a ELSE b
Max(a, b) == IF a > b THEN a ELSE b

\* ------------------------------------------------------------ conversions

Digits == <<"0", "1", "2", "3", "4", "5", "6", "7", "8", "9">>

\* strconv.Itoa / the %d verb: the decimal digits of n >= 0, most significant
\* first.
RECURSIVE Itoa(_)
Itoa(n) == IF n < 10 THEN <<Digits[n + 1]>>
           ELSE Itoa(n \div 10) \o <<Digits[(n % 10) + 1]>>

\* strconv.Itoa of any int: a minus sign before the digits of a negative
\* number.
FormatInt(n) == IF n < 0 THEN <<"-">> \o Itoa(0 - n) ELSE Itoa(n)

DigitVal(d) == IF \E i \in 1..10 : Digits[i] = d
               THEN (CHOOSE i \in 1..10 : Digits[i] = d) - 1
               ELSE -1

\* strconv.Atoi with the error dropped (row, _ := strconv.Atoi(attr.Value)):
\* 0 when the text is not a number.
RECURSIVE AtoiAcc(_, _)
AtoiAcc(s, acc) == IF s = <<>> THEN acc
                   ELSE IF DigitVal(Head(s)) < 0 THEN 0
                   ELSE AtoiAcc(Tail(s), acc * 10 + DigitVal(Head(s)))
Atoi(s) == IF s = <<>> THEN 0 ELSE AtoiAcc(s, 0)

ColumnNames == <<"A", "B", "C", "D">>

\* CoordinatesToCellName(col, row): the cell reference, or an error when the
\* coordinates are out of range.
CoordinatesToCellName(col, row) ==
    IF col < 1 \/ col > TotalColumns \/ row < 1
    THEN [name |-> <<>>, err |-> "ErrAddr"]
    ELSE [name |-> <<ColumnNames[col]>> \o Itoa(row), err |-> ""]

\* CellNameToCoordinates(cell): the inverse, or an error for a malformed or
\* out-of-range reference.
CellNameToCoordinates(cell) ==
    IF /\ Len(cell) >= 2
       /\ \E c \in 1..TotalColumns : ColumnNames[c] = cell[1]
       /\ \A i \in 2..Len(cell) : DigitVal(cell[i]) >= 0
       /\ Atoi(Tail(cell)) >= 1
    THEN [col |-> CHOOSE c \in 1..TotalColumns : ColumnNames[c] = cell[1],
          row |-> Atoi(Tail(cell)), err |-> ""]
    ELSE [col |-> 0, row |-> 0, err |-> "ErrAddr"]

\* xml.EscapeText on one character: markup characters become entities and a
\* character outside the XML character range becomes U+FFFD.
EscapeChar(ch) == CASE ch = "&" -> "&amp;"
                    [] ch = "<" -> "&lt;"
                    [] ch = "NUL" -> "U+FFFD"
                    [] OTHER -> ch
EscapeText(s) == [i \in 1..Len(s) |-> EscapeChar(s[i])]

\* The decoder's character data: entities are replaced by their characters.
UnescapeChar(ch) == CASE ch = "&amp;" -> "&"
                      [] ch = "&lt;" -> "<"
                      [] OTHER -> ch
UnescapeText(s) == [i \in 1..Len(s) |-> UnescapeChar(s[i])]

\* ----------------------------------------------------------------- markup

\* One piece of markup.  k is the kind; a is the r attribute of a row; ref,
\* s, t, sp and v are the attributes and the <v> character data of a cell.
Tok(k, a, ref, s, t, sp, v) ==
    [k |-> k, a |-> a, ref |-> ref, s |-> s, t |-> t, sp |-> sp, v |-> v]
Mark(k) == Tok(k, <<>>, <<>>, 0, "", "", <<>>)
RowStart(row) == Tok("row", Itoa(row), <<>>, 0, "", "", <<>>)
RowEnd == Mark("/row")

\* ------------------------------------------------------------ cell values

\* A value handed to SetRow.  ty is its dynamic type; str its text; n its
\* number; cell says it is wrapped in a Cell with StyleID style.
Val(ty, str, n) == [ty |-> ty, str |-> str, n |-> n, cell |-> FALSE, style |-> 0]
InCell(style, v) == [v EXCEPT !.cell = TRUE, !.style = style]

\* setCellStr: the string tag, the text, and xml:space="preserve" when the
\* text starts or ends with a space.
setCellStr(str) ==
    [T |-> "str", V |-> str,
     sp |-> IF str # <<>> /\ (str[1] = " " \/ str[Len(str)] = " ")
            THEN "preserve" ELSE "",
     err |-> ""]

\* The integer types setCellValFunc hands to setCellIntFunc.
IntFamily == {"int", "int8", "int16", "int32", "int64",
              "uint", "uint8", "uint16", "uint32", "uint64"}

\* The conversion int(val) of Go: the value when it fits int, else the value
\* the same bits have as a signed number of IntBits bits.
ToInt(n) == ((n + 2 ^ (IntBits - 1)) % (2 ^ IntBits)) - 2 ^ (IntBits - 1)

\* setCellInt: no type tag (the default numeric type) and the decimal digits
\* of the int.
setCellInt(n) == [T |-> "", V |-> FormatInt(n), sp |-> "", err |-> ""]

\* setCellIntFunc: whatever the integer type, the value is converted to int
\* and handed to setCellInt.
setCellIntFunc(val) == setCellInt(ToInt(val.n))

\* setCellValFunc, were an absent value to leave the cell without a type tag.
setCellValFuncNilUntyped(val) ==
    CASE val.ty \in IntFamily -> setCellIntFunc(val)
      [] val.ty = "string" -> setCellStr(val.str)
      [] val.ty = "bool"   -> [T |-> "b", V |-> Itoa(val.n), sp |-> "", err |-> ""]
      [] val.ty = "time"   -> IF val.n = 0
                              THEN [T |-> "", V |-> <<>>, sp |-> "", err |-> "ErrEnc"]
                              ELSE [T |-> "", V |-> Itoa(val.n), sp |-> "", err |-> ""]
      [] val.ty = "nil"    -> [T |-> "", V |-> <<>>, sp |-> "", err |-> ""]
      [] OTHER             -> setCellStr(val.str)

\* setCellValFunc: the type tag and literal text of a value.  A time whose
\* serial number cannot be computed (n = 0 here) is the encoder's error.
setCellValFunc(val) ==
    CASE val.ty \in IntFamily -> setCellIntFunc(val)
      [] val.ty = "string" -> setCellStr(val.str)
      [] val.ty = "bool"   -> [T |-> "b", V |-> Itoa(val.n), sp |-> "", err |-> ""]
      [] val.ty = "time"   -> IF val.n = 0
                              THEN [T |-> "", V |-> <<>>, sp |-> "", err |-> "ErrEnc"]
                              ELSE [T |-> "", V |-> Itoa(val.n), sp |-> "", err |-> ""]
      [] val.ty = "nil"    -> setCellStr(<<>>)
      [] OTHER             -> setCellStr(val.str)

\* The markup writeCell produces for the cell c.
CellTok(ref, s, enc) == Tok("c", <<>>, ref, s, enc.T, enc.sp, EscapeText(enc.V))

\* ------------------------------------------------------- the world record
\* The operators below take and return a record w of the program's state:
\*   w.rawData  the bufferedWriter: tmp ("nil", "open" or, once Close has
\*              run, "closed"), and the bytes.Buffer: buf is its unread
\*              content, off the read offset into the backing array and cap
\*              the capacity of the backing array;
\*   w.tmpfile  the temp file on disk: its data, the file cursor pos, live
\*              (it exists and is not removed) and the number created;
\*   w.File     the document: XLSX is the sheet's artifact, aliased says that
\*              XLSX is a slice of the buffer's backing array (what
\*              bytes.Buffer.Bytes returns), Sheet and checked are the cached
\*              entries of the sheet path; rels lists the targets of the
\*              sheet's relationships (the k-th has the id rId<k>), types the
\*              table parts registered as content types and tables the saved
\*              table files (the k-th is xl/tables/table<k>.xml).
\* io is the storage fault met by a call: kind is "none", "create", "write",
\* "stat", "seek" or "read", and m the number of elements transferred before
\* a failing write or read.

NoFault == [kind |-> "none", m |-> 0]

\* bytes.Buffer.Reset: the content is dropped, the backing array is kept.
Reset(w) == [w EXCEPT !.rawData.buf = <<>>, !.rawData.off = 0]

\* The artifact after n elements of p were stored into the backing array from
\* (0-based) position at on: a slice of the array sees the stores.
Stored(w, at, p) ==
    IF w.File.aliased
    THEN [i \in 1..Len(w.File.XLSX) |->
             IF i > at /\ i <= at + Len(p) THEN p[i - at] ELSE w.File.XLSX[i]]
    ELSE w.File.XLSX

\* bufferedWriter.Write / WriteString: bytes.Buffer.Write, which always
\* succeeds.  The bytes go into the backing array after the content when
\* they fit; else the content is slid to the front of the array when that
\* makes room; else a new array of capacity 2*cap + n is allocated and the
\* old one is left to whoever holds a slice of it.
Write(w, p) ==
    LET n == Len(p)
        b == w.rawData
        m == Len(b.buf)
        l == b.off + m
    IN  IF n = 0 THEN w
        ELSE IF l + n <= b.cap
        THEN [w EXCEPT !.rawData.buf = b.buf \o p,
                       !.File.XLSX = Stored(w, l, p)]
        ELSE IF n <= (b.cap \div 2) - m
        THEN [w EXCEPT !.rawData.buf = b.buf \o p,
                       !.rawData.off = 0,
                       !.File.XLSX = Stored(w, 0, b.buf \o p)]
        ELSE [w EXCEPT !.rawData.buf = b.buf \o p,
                       !.rawData.off = 0,
                       !.rawData.cap = 2 * b.cap + n,
                       !.File.aliased = FALSE]

\* One Write call per element of ps, in order.
RECURSIVE WriteEach(_, _)
WriteEach(w, ps) == IF ps = <<>> THEN w
                    ELSE WriteEach(Write(w, <<Head(ps)>>), Tail(ps))

\* os.File.Write of p at the file cursor.  A closed file takes nothing; a
\* failing write takes fewer than Len(p) elements.
fileWrite(w, p, io) ==
    LET n   == IF w.rawData.tmp = "closed" THEN 0
               ELSE IF io.kind = "write" THEN Min(io.m, Len(p) - 1)
               ELSE Len(p)
        d   == w.tmpfile.data
        pos == w.tmpfile.pos
        nd  == [i \in 1..Max(Len(d), pos + n) |->
                   IF i > pos /\ i <= pos + n THEN p[i - pos] ELSE d[i]]
    IN  [w   |-> [w EXCEPT !.tmpfile.data = nd, !.tmpfile.pos = pos + n],
         n   |-> n,
         err |-> IF n < Len(p) THEN "ErrIO" ELSE ""]

\* WriteTo, were a failed write to leave the buffer as it was.
WriteToKeep(w, io) ==
    IF w.rawData.buf = <<>> THEN [w |-> Reset(w), err |-> ""]
    ELSE LET Wrote(r) == IF r.err # "" THEN [w |-> r.w, err |-> r.err]
                         ELSE [w |-> Reset(r.w), err |-> ""]
         IN  Wrote(fileWrite(w, w.rawData.buf, io))

\* bytes.Buffer.WriteTo(bw.tmp): the unread content is written to the file
\* and what was written is consumed; the buffer is reset when all of it was.
WriteTo(w, io) ==
    IF w.rawData.buf = <<>> THEN [w |-> Reset(w), err |-> ""]
    ELSE LET Consumed(r) ==
                 [r.w EXCEPT
                     !.rawData.buf = SubSeq(w.rawData.buf, r.n + 1, Len(w.rawData.buf)),
                     !.rawData.off = w.rawData.off + r.n]
             Wrote(r) == IF r.err # "" THEN [w |-> Consumed(r), err |-> r.err]
                         ELSE [w |-> Reset(Consumed(r)), err |-> ""]
         IN  Wrote(fileWrite(w, w.rawData.buf, io))

\* bufferedWriter.Flush: the in-memory buffer goes to the temp file, if one
\* is being used.
bwFlush(w, io) ==
    IF w.rawData.tmp = "nil" THEN [w |-> w, err |-> ""]
    ELSE LET Wrote(r) == IF r.err # "" THEN r ELSE [w |-> Reset(r.w), err |-> ""]
         IN  Wrote(WriteTo(w, io))

\* ioutil.TempFile: a new, empty temp file, opened for reading and writing.
TempFile(w) ==
    [w EXCEPT !.rawData.tmp = "open",
              !.tmpfile = [data |-> <<>>, pos |-> 0, live |-> TRUE,
                           created |-> w.tmpfile.created + 1]]

\* Sync, were the threshold not tested: every call spills.
SyncEager(w, io) ==
    IF w.rawData.tmp = "nil" /\ io.kind = "create" THEN [w |-> w, err |-> ""]
    ELSE IF w.rawData.tmp = "nil" THEN bwFlush(TempFile(w), io)
    ELSE bwFlush(w, io)

\* Sync, were the result of the flush dropped.
SyncSwallow(w, io) ==
    IF Len(w.rawData.buf) < chunk THEN [w |-> w, err |-> ""]
    ELSE IF w.rawData.tmp = "nil" /\ io.kind = "create" THEN [w |-> w, err |-> ""]
    ELSE IF w.rawData.tmp = "nil" THEN [w |-> bwFlush(TempFile(w), io).w, err |-> ""]
    ELSE [w |-> bwFlush(w, io).w, err |-> ""]

\* bufferedWriter.Sync: nothing below the threshold; at or beyond it the temp
\* file is created if there is none (a failure to create it returns nil) and
\* the buffer is flushed to it.
Sync(w, io) ==
    IF Len(w.rawData.buf) < chunk THEN [w |-> w, err |-> ""]
    ELSE IF w.rawData.tmp = "nil" /\ io.kind = "create" THEN [w |-> w, err |-> ""]
    ELSE IF w.rawData.tmp = "nil" THEN bwFlush(TempFile(w), io)
    ELSE bwFlush(w, io)

\* Bytes, were the file read from the cursor, without Seek(0, 0).
BytesNoSeek(w, io) ==
    IF w.rawData.tmp = "nil"
    THEN [w |-> w, b |-> w.rawData.buf, alias |-> TRUE, err |-> ""]
    ELSE LET Flushed(f) ==
                 IF f.err # "" THEN [w |-> f.w, b |-> <<>>, alias |-> FALSE, err |-> f.err]
                 ELSE IF f.w.rawData.tmp = "closed"
                 THEN [w |-> f.w, b |-> <<>>, alias |-> FALSE, err |-> "ErrIO"]
                 ELSE [w     |-> [f.w EXCEPT !.tmpfile.pos = Len(f.w.tmpfile.data)],
                       b     |-> SubSeq(f.w.tmpfile.data, f.w.tmpfile.pos + 1,
                                        Len(f.w.tmpfile.data)),
                       alias |-> FALSE,
                       err   |-> IF io.kind = "read" THEN "ErrIO" ELSE ""]
         IN  Flushed(bwFlush(w, io))

\* bufferedWriter.Bytes: without a temp file, the slice bytes.Buffer.Bytes
\* returns (alias is TRUE: it shares the buffer's backing array); with one,
\* Flush, Seek(0, 0) and a fresh buffer read from the file up to its end.  A
\* failing Stat only skips the preallocation.
Bytes(w, io) ==
    IF w.rawData.tmp = "nil"
    THEN [w |-> w, b |-> w.rawData.buf, alias |-> TRUE, err |-> ""]
    ELSE LET Got(d) == IF io.kind = "read" THEN Min(io.m, Len(d)) ELSE Len(d)
             Flushed(f) ==
                 IF f.err # "" THEN [w |-> f.w, b |-> <<>>, alias |-> FALSE, err |-> f.err]
                 ELSE IF f.w.rawData.tmp = "closed" \/ io.kind = "seek"
                 THEN [w |-> f.w, b |-> <<>>, alias |-> FALSE, err |-> "ErrIO"]
                 ELSE [w     |-> [f.w EXCEPT !.tmpfile.pos = Got(f.w.tmpfile.data)],
                       b     |-> SubSeq(f.w.tmpfile.data, 1, Got(f.w.tmpfile.data)),
                       alias |-> FALSE,
                       err   |-> IF io.kind = "read" THEN "ErrIO" ELSE ""]
         IN  Flushed(bwFlush(w, io))

\* Reader, were the file read through its cursor from the start and the
\* cursor left there.
ReaderRewinds(w, io) ==
    IF w.rawData.tmp = "nil"
    THEN [w |-> w, data |-> w.rawData.buf, upto |-> -1, err |-> ""]
    ELSE LET Flushed(f) ==
                 IF f.err # "" THEN [w |-> f.w, data |-> <<>>, upto |-> -1, err |-> f.err]
                 ELSE IF f.w.rawData.tmp = "closed" \/ io.kind = "stat"
                 THEN [w |-> f.w, data |-> <<>>, upto |-> -1, err |-> "ErrIO"]
                 ELSE [w    |-> [f.w EXCEPT !.tmpfile.pos = 0],
                       data |-> f.w.tmpfile.data,
                       upto |-> IF io.kind = "read"
                                THEN Min(io.m, Len(f.w.tmpfile.data)) ELSE -1,
                       err  |-> ""]
         IN  Flushed(bwFlush(w, io))

\* bufferedWriter.Reader: without a temp file, a reader over the buffer; with
\* one, Flush, Stat and a section reader over the whole file, which reads by
\* offset and leaves the cursor alone.  upto is the number of elements the
\* reader delivers before a read fault (-1: no fault).
Reader(w, io) ==
    IF w.rawData.tmp = "nil"
    THEN [w |-> w, data |-> w.rawData.buf, upto |-> -1, err |-> ""]
    ELSE LET Flushed(f) ==
                 IF f.err # "" THEN [w |-> f.w, data |-> <<>>, upto |-> -1, err |-> f.err]
                 ELSE IF f.w.rawData.tmp = "closed" \/ io.kind = "stat"
                 THEN [w |-> f.w, data |-> <<>>, upto |-> -1, err |-> "ErrIO"]
                 ELSE [w    |-> f.w,
                       data |-> f.w.tmpfile.data,
                       upto |-> IF io.kind = "read"
                                THEN Min(io.m, Len(f.w.tmpfile.data)) ELSE -1,
                       err  |-> ""]
         IN  Flushed(bwFlush(w, io))

\* bufferedWriter.Close: the buffer is reset and the temp file, if any, is
\* closed and removed.
Close(w) ==
    IF w.rawData.tmp = "nil" THEN Reset(w)
    ELSE [Reset(w) EXCEPT !.rawData.tmp = "closed",
                          !.tmpfile.data = <<>>,
                          !.tmpfile.pos = 0,
                          !.tmpfile.live = FALSE]

\* ------------------------------------------------------------ StreamWriter

\* What NewStreamWriter writes: the XML header with the opening <worksheet>,
\* the skeleton fields 1 to 5 and the opening <sheetData>.
HeaderToks == <<Mark("hdr"), Mark("fields1_5"), Mark("<sheetData>")>>

\* What Flush writes: the closing </sheetData>, the skeleton fields 7 to 37,
\* the tableParts fragment (nothing when it is empty), field 39 and the
\* closing </worksheet>.
TrailerToks(tableParts) ==
    <<Mark("</sheetData>"), Mark("fields7_37")>>
    \o tableParts
    \o <<Mark("fields39"), Mark("</worksheet>")>>

\* SetRowCells, were an encoder error to return without the closing </row>.
RECURSIVE SetRowCellsNoClose(_, _, _, _, _, _)
SetRowCellsNoClose(w, col, row, values, i, io) ==
    IF i > Len(values)
    THEN Sync(Write(w, <<RowEnd>>), io)
    ELSE LET Cell(ax, val, enc) ==
                 IF ax.err # "" THEN [w |-> w, err |-> ax.err]
                 ELSE IF enc.err # "" THEN [w |-> w, err |-> enc.err]
                 ELSE SetRowCellsNoClose(
                          Write(w, <<CellTok(ax.name,
                                             IF val.cell THEN val.style ELSE 0, enc)>>),
                          col, row, values, i + 1, io)
         IN  Cell(CoordinatesToCellName(col + i - 1, row), values[i], setCellValFunc(values[i]))

\* SetRowCells, were every cell referenced at the start column.
RECURSIVE SetRowCellsSameCol(_, _, _, _, _, _)
SetRowCellsSameCol(w, col, row, values, i, io) ==
    IF i > Len(values)
    THEN Sync(Write(w, <<RowEnd>>), io)
    ELSE LET Cell(ax, val, enc) ==
                 IF ax.err # "" THEN [w |-> w, err |-> ax.err]
                 ELSE IF enc.err # "" THEN [w |-> Write(w, <<RowEnd>>), err |-> enc.err]
                 ELSE SetRowCellsSameCol(
                          Write(w, <<CellTok(ax.name,
                                             IF val.cell THEN val.style ELSE 0, enc)>>),
                          col, row, values, i + 1, io)
         IN  Cell(CoordinatesToCellName(col, row), values[i], setCellValFunc(values[i]))

\* The loop of SetRow over values[i..], the cell of values[i] going to column
\* col + i - 1: an addressing error returns at once, an encoder error writes
\* the closing </row> and returns, and after the last cell the closing </row>
\* is written and Sync decides the result.
RECURSIVE SetRowCells(_, _, _, _, _, _)
SetRowCells(w, col, row, values, i, io) ==
    IF i > Len(values)
    THEN Sync(Write(w, <<RowEnd>>), io)
    ELSE LET Cell(ax, val, enc) ==
                 IF ax.err # "" THEN [w |-> w, err |-> ax.err]
                 ELSE IF enc.err # "" THEN [w |-> Write(w, <<RowEnd>>), err |-> enc.err]
                 ELSE SetRowCells(
                          Write(w, <<CellTok(ax.name,
                                             IF val.cell THEN val.style ELSE 0, enc)>>),
                          col, row, values, i + 1, io)
         IN  Cell(CoordinatesToCellName(col + i - 1, row), values[i], setCellValFunc(values[i]))

\* StreamWriter.SetRow(axis, values).
SetRow(w, axis, values, io) ==
    LET From(c) ==
            IF c.err # "" THEN [w |-> w, err |-> c.err]
            ELSE SetRowCells(Write(w, <<RowStart(c.row)>>), c.col, c.row, values, 1, io)
    IN  From(CellNameToCoordinates(axis))

\* StreamWriter.Flush: the trailer is written and the buffer flushed; then
\* the cached entries of the sheet are deleted, Bytes is installed as the
\* sheet's artifact and, by the deferred call, the buffer is closed.  An error
\* of the flush returns before the deferred Close is registered.
swFlush(w, tableParts, io) ==
    LET Installed(b) ==
            IF b.err # "" THEN [w |-> Close(b.w), err |-> b.err]
            ELSE [w   |-> Close([b.w EXCEPT !.File.XLSX = b.b, !.File.aliased = b.alias]),
                  err |-> ""]
        Flushed(f) ==
            IF f.err # "" THEN [w |-> f.w, err |-> f.err]
            ELSE Installed(Bytes([f.w EXCEPT !.File.Sheet = FALSE, !.File.checked = FALSE],
                                 io))
    IN  Flushed(bwFlush(WriteEach(w, TrailerToks(tableParts)), io))

\* ----------------------------------------------------------------- scanner

\* getRowElement, were the row number not compared.
getRowElementAny(tok, hrow) == tok.k = "row"

\* getRowElement: the token is a start element named row whose r attribute
\* is the number hrow.
getRowElement(tok, hrow) == tok.k = "row" /\ Atoi(tok.a) = hrow

\* The element a closing token closes, "" for a token that closes nothing.
Closes(tok) == CASE tok.k = "/row" -> "row"
                 [] tok.k = "</sheetData>" -> "sheetData"
                 [] tok.k = "</worksheet>" -> "worksheet"
                 [] OTHER -> ""

\* The element an opening token opens, "" for a token that opens nothing
\* (a cell, a skeleton field and the tableParts fragment are whole elements).
Opens(tok) == CASE tok.k = "row" -> "row"
                [] tok.k = "<sheetData>" -> "sheetData"
                [] tok.k = "hdr" -> "worksheet"
                [] OTHER -> ""

\* The end of the input: a read fault is the reader's error; elements still
\* open are the decoder's syntax error (unexpected EOF); else io.EOF.
AtEnd(data, upto, stk) ==
    IF upto >= 0 THEN "ErrIO" ELSE IF stk # <<>> THEN "ErrXML" ELSE "EOF"

Avail(data, upto) == IF upto >= 0 THEN upto ELSE Len(data)

\* dec.DecodeElement(&row, &startElement) from the token after the row's
\* start: the cells that are children of the row, up to its end element.
\* stk names the elements open inside the row.
RECURSIVE DecodeElement(_, _, _, _, _)
DecodeElement(data, upto, i, stk, cells) ==
    IF i > Avail(data, upto)
    THEN [cells |-> <<>>, err |-> AtEnd(data, upto, <<"row">>)]
    ELSE LET tok == data[i]
         IN  IF Closes(tok) # ""
             THEN IF stk = <<>>
                  THEN IF Closes(tok) = "row" THEN [cells |-> cells, err |-> ""]
                       ELSE [cells |-> <<>>, err |-> "ErrXML"]
                  ELSE IF stk[Len(stk)] = Closes(tok)
                       THEN DecodeElement(data, upto, i + 1,
                                          SubSeq(stk, 1, Len(stk) - 1), cells)
                       ELSE [cells |-> <<>>, err |-> "ErrXML"]
             ELSE IF Opens(tok) # ""
             THEN DecodeElement(data, upto, i + 1, Append(stk, Opens(tok)), cells)
             ELSE IF tok.k = "c" /\ stk = <<>>
             THEN DecodeElement(data, upto, i + 1, stk, Append(cells, tok))
             ELSE DecodeElement(data, upto, i + 1, stk, cells)

\* StoreCells, were the first column of the range left out.
RECURSIVE StoreCellsSkipFirst(_, _, _, _)
StoreCellsSkipFirst(cells, hcol, vcol, res) ==
    IF cells = <<>> THEN [res |-> res, err |-> ""]
    ELSE LET At(c) ==
                 IF c.err # "" THEN [res |-> <<>>, err |-> c.err]
                 ELSE IF c.col <= hcol \/ c.col > vcol
                 THEN StoreCellsSkipFirst(Tail(cells), hcol, vcol, res)
                 ELSE StoreCellsSkipFirst(Tail(cells), hcol, vcol,
                          [res EXCEPT ![c.col - hcol + 1] = UnescapeText(Head(cells).v)])
         IN  At(CellNameToCoordinates(Head(cells).ref))

\* for _, c := range row.C: the literal of every cell whose column is within
\* hcol..vcol is stored at its column offset; a reference that does not parse
\* is an error.
RECURSIVE StoreCells(_, _, _, _)
StoreCells(cells, hcol, vcol, res) ==
    IF cells = <<>> THEN [res |-> res, err |-> ""]
    ELSE LET At(c) ==
                 IF c.err # "" THEN [res |-> <<>>, err |-> c.err]
                 ELSE IF c.col < hcol \/ c.col > vcol
                 THEN StoreCells(Tail(cells), hcol, vcol, res)
                 ELSE StoreCells(Tail(cells), hcol, vcol,
                          [res EXCEPT ![c.col - hcol + 1] = UnescapeText(Head(cells).v)])
         IN  At(CellNameToCoordinates(Head(cells).ref))

\* The token loop of getRowValues from token i on, stk naming the elements
\* open so far.
RECURSIVE ScanTokens(_, _, _, _, _, _, _)
ScanTokens(data, upto, i, stk, hrow, hcol, vcol) ==
    LET empty == [j \in 1..(vcol - hcol + 1) |-> <<>>]
    IN  IF i > Avail(data, upto)
        THEN IF AtEnd(data, upto, stk) = "EOF"
             THEN [res |-> empty, err |-> ""]
             ELSE [res |-> <<>>, err |-> AtEnd(data, upto, stk)]
        ELSE LET tok == data[i]
             IN  IF Closes(tok) # ""
                 THEN IF stk # <<>> /\ stk[Len(stk)] = Closes(tok)
                      THEN ScanTokens(data, upto, i + 1, SubSeq(stk, 1, Len(stk) - 1),
                                      hrow, hcol, vcol)
                      ELSE [res |-> <<>>, err |-> "ErrXML"]
                 ELSE IF getRowElement(tok, hrow)
                 THEN LET Decoded(d) ==
                              IF d.err # "" THEN [res |-> <<>>, err |-> d.err]
                              ELSE StoreCells(d.cells, hcol, vcol, empty)
                      IN  Decoded(DecodeElement(data, upto, i + 1, <<>>, <<>>))
                 ELSE IF Opens(tok) # ""
                 THEN ScanTokens(data, upto, i + 1, Append(stk, Opens(tok)),
                                 hrow, hcol, vcol)
                 ELSE ScanTokens(data, upto, i + 1, stk, hrow, hcol, vcol)

\* StreamWriter.getRowValues(hrow, hcol, vcol).
getRowValues(w, hrow, hcol, vcol, io) ==
    LET Scanned(r, sc) == [w |-> r.w, res |-> sc.res, err |-> sc.err]
        Opened(r) ==
            IF r.err # "" THEN [w |-> r.w, res |-> <<>>, err |-> r.err]
            ELSE Scanned(r, ScanTokens(r.data, r.upto, 1, <<>>, hrow, hcol, vcol))
    IN  Opened(Reader(w, io))

\* ------------------------------------------------------------------ tables

\* The format argument of AddTable as parseFormatTableSet reads it: ok says
\* it parses, name is the table_name it gives ("" for none).
FormatNone == [ok |-> TRUE, name |-> <<>>]
FormatBad  == [ok |-> FALSE, name |-> <<>>]

\* areaRangeToCoordinates(hcell, vcell): <<col1, row1, col2, row2>> of the
\* two corner cells, or the error of the one that does not parse.
areaRangeToCoordinates(hcell, vcell) ==
    LET Both(h, v) ==
            IF h.err # "" THEN [c |-> <<>>, err |-> h.err]
            ELSE IF v.err # "" THEN [c |-> <<>>, err |-> v.err]
            ELSE [c |-> <<h.col, h.row, v.col, v.row>>, err |-> ""]
    IN  Both(CellNameToCoordinates(hcell), CellNameToCoordinates(vcell))

\* sortCoordinates: the columns are swapped when the second is the smaller,
\* and so are the rows.
sortCoordinates(c) ==
    <<Min(c[1], c[3]), Min(c[2], c[4]), Max(c[1], c[3]), Max(c[2], c[4])>>

\* coordinatesToAreaRef: the references of the two corners.
coordinatesToAreaRef(c) ==
    LET Both(h, v) ==
            IF h.err # "" THEN [ref |-> <<>>, err |-> h.err]
            ELSE IF v.err # "" THEN [ref |-> <<>>, err |-> v.err]
            ELSE [ref |-> <<h.name, v.name>>, err |-> ""]
    IN  Both(CoordinatesToCellName(c[1], c[2]), CoordinatesToCellName(c[3], c[4]))

\* Normalize, were the coordinates not sorted before the rows are compared.
NormalizeUnsorted(c) == IF c[2] = c[4] THEN [c EXCEPT ![4] = @ + 1] ELSE c

\* The rectangle AddTable uses: the coordinates are sorted, then a rectangle
\* of one row gets a second one.
Normalize(c) ==
    LET Widen(s) == IF s[2] = s[4] THEN [s EXCEPT ![4] = @ + 1] ELSE s
    IN  Widen(sortCoordinates(c))

\* tableColumn, were the IDs counted from 0.
tableColumnFromZero(tableHeaders) ==
    [i \in 1..Len(tableHeaders) |-> [ID |-> i - 1, Name |-> tableHeaders[i]]]

\* The columns of the table: one per header, with the IDs 1, 2, ... and the
\* header's text as name.
tableColumn(tableHeaders) ==
    [i \in 1..Len(tableHeaders) |-> [ID |-> i, Name |-> tableHeaders[i]]]

\* The fragment AddTable stores for Flush: <tableParts count="1"> with one
\* tablePart of the relationship rId<rID>.
TablePartsTok(rID) == Tok("tableParts", Itoa(rID), <<>>, 0, "", "", <<>>)

\* AddTable, were the relationship added and the tableParts fragment set
\* before the header row is scanned.
AddTableRegistersFirst(w, tableParts, hcell, vcell, format, io) ==
    LET Fail(w1, e) == [w |-> w1, tableParts |-> tableParts, err |-> e]
        TableName(tableID) ==
            IF format.name = <<>> THEN <<"Table">> \o Itoa(tableID) ELSE format.name
        Save(w1, ref, cols, tableID, rID) ==
            [w |-> [w1 EXCEPT
                       !.File.rels = Append(@, tableID),
                       !.File.types = Append(@, tableID),
                       !.File.tables = Append(@, [ID |-> tableID,
                                                   Name |-> TableName(tableID),
                                                   Ref |-> ref,
                                                   TableColumns |-> cols])],
             tableParts |-> <<TablePartsTok(rID)>>,
             err |-> ""]
        Register(ref, g) ==
            IF g.err # ""
            THEN [w |-> [g.w EXCEPT !.File.rels = Append(@, Len(g.w.File.tables) + 1)],
                  tableParts |-> <<TablePartsTok(Len(g.w.File.rels) + 1)>>,
                  err |-> g.err]
            ELSE Save(g.w, ref, tableColumn(g.res),
                      Len(g.w.File.tables) + 1, Len(g.w.File.rels) + 1)
        Scan(c, a) ==
            IF a.err # "" THEN Fail(w, a.err)
            ELSE Register(a.ref, getRowValues(w, c[2], c[1], c[3], io))
        Area(c) == Scan(c, coordinatesToAreaRef(c))
        Coord(p) == IF p.err # "" THEN Fail(w, p.err) ELSE Area(Normalize(p.c))
    IN  IF ~format.ok THEN Fail(w, "ErrFormat")
        ELSE Coord(areaRangeToCoordinates(hcell, vcell))

\* StreamWriter.AddTable(hcell, vcell, format): the format and the corners
\* are parsed, the rectangle is normalized and turned into the reference, the
\* header row is scanned for the column names; then the table gets the next
\* table ID, the relationship is added, the tableParts fragment is set, the
\* content type is registered and the table file is saved.  Every error
\* returns before the document or tableParts is touched.
AddTable(w, tableParts, hcell, vcell, format, io) ==
    LET Fail(w1, e) == [w |-> w1, tableParts |-> tableParts, err |-> e]
        TableName(tableID) ==
            IF format.name = <<>> THEN <<"Table">> \o Itoa(tableID) ELSE format.name
        Save(w1, ref, cols, tableID, rID) ==
            [w |-> [w1 EXCEPT
                       !.File.rels = Append(@, tableID),
                       !.File.types = Append(@, tableID),
                       !.File.tables = Append(@, [ID |-> tableID,
                                                   Name |-> TableName(tableID),
                                                   Ref |-> ref,
                                                   TableColumns |-> cols])],
             tableParts |-> <<TablePartsTok(rID)>>,
             err |-> ""]
        Register(ref, g) ==
            IF g.err # "" THEN Fail(g.w, g.err)
            ELSE Save(g.w, ref, tableColumn(g.res),
                      Len(g.w.File.tables) + 1, Len(g.w.File.rels) + 1)
        Scan(c, a) ==
            IF a.err # "" THEN Fail(w, a.err)
            ELSE Register(a.ref, getRowValues(w, c[2], c[1], c[3], io))
        Area(c) == Scan(c, coordinatesToAreaRef(c))
        Coord(p) == IF p.err # "" THEN Fail(w, p.err) ELSE Area(Normalize(p.c))
    IN  IF ~format.ok THEN Fail(w, "ErrFormat")
        ELSE Coord(areaRangeToCoordinates(hcell, vcell))

\* -------------------------------------------------------------- the state

VARIABLES
    rawData,     \* sw.rawData, the bufferedWriter
    tmpfile,     \* the temp file behind rawData.tmp
    File,        \* sw.File: XLSX, Sheet and checked at the sheet's path
    tableParts,  \* sw.tableParts
    last,        \* the last call: its arguments, its fault and its result
    hist         \* what the calls so far have done (see NoHistory)

vars == <<rawData, tmpfile, File, tableParts, last, hist>>

World == [rawData |-> rawData, tmpfile |-> tmpfile, File |-> File]

\* The content of the buffer as Bytes and Reader present it: what is in the
\* temp file followed by what is in memory.
Logical(w) == w.tmpfile.data \o w.rawData.buf

EmptyWorld ==
    [rawData |-> [tmp |-> "nil", buf |-> <<>>, off |-> 0, cap |-> 0],
     tmpfile |-> [data |-> <<>>, pos |-> 0, live |-> FALSE, created |-> 0],
     File    |-> [XLSX |-> <<Mark("old")>>, aliased |-> FALSE,
                  Sheet |-> TRUE, checked |-> TRUE,
                  rels |-> <<>>, types |-> <<>>, tables |-> <<>>]]

\* File.NewStreamWriter: the sheet is read (and so cached and checked) and
\* the header is written to the new writer's buffer.
NewStreamWriter == WriteEach(EmptyWorld, HeaderToks)

Call(op, axis, values, hrow, hcol, vcol, io, err, res) ==
    [op |-> op, axis |-> axis, values |-> values, hrow |-> hrow, hcol |-> hcol,
     vcol |-> vcol, io |-> io, err |-> err, res |-> res]

NoCall == Call("NewStreamWriter", <<>>, <<>>, 0, 0, 0, NoFault, "", <<>>)

\* n counts the StreamWriter's calls and faults the calls that met a storage
\* fault; emitted lists what was written (the cells of the successful SetRow
\* calls; the bytes of the Write calls); rows holds the row numbers whose
\* marker was written; clean says every call so far was a successful SetRow;
\* finalized says a Flush of the StreamWriter has returned nil; order lists
\* the row numbers of the successful SetRow calls, in call order, and rowsok
\* says no SetRow call has returned an error.
NoHistory == [n |-> 0, emitted |-> <<>>, rows |-> {}, clean |-> TRUE,
              finalized |-> FALSE, faults |-> 0, order |-> <<>>, rowsok |-> TRUE]

Init ==
    /\ rawData = NewStreamWriter.rawData
    /\ tmpfile = NewStreamWriter.tmpfile
    /\ File = NewStreamWriter.File
    /\ tableParts = <<>>
    /\ last = NoCall
    /\ hist = NoHistory

\* ------------------------------------------------------------- the inputs

StrN   == Val("string", <<"N">>, 0)
StrAmp == Val("string", <<"&">>, 0)
StrNUL == Val("string", <<"NUL">>, 0)
Int7   == Val("int", <<>>, 7)
Int12  == Val("int", <<>>, 12)
NilVal == Val("nil", <<>>, 0)
BadTime == Val("time", <<>>, 0)

Ref(col, row) == <<ColumnNames[col]>> \o Itoa(row)

\* The SetRow calls of the model, <<axis, values>>: in column A of every row
\* up to MaxRow, two texts (one needs escaping); in A1 also a number, a time
\* the encoder rejects as second of three values, and no value at all; from
\* B1, an absent value and a styled Cell whose text has a character XML does
\* not allow; in the last column, one value and two values (the second is
\* past the column limit); and a start cell that does not parse.
SetRowInputs ==
    { <<Ref(1, r), <<StrN, StrAmp>> >> : r \in 1..MaxRow }
    \cup { <<Ref(1, 1), <<Int7>> >>,
           <<Ref(1, 1), <<Int12, BadTime, StrN>> >>,
           <<Ref(1, 1), <<>> >>,
           <<Ref(2, 1), <<NilVal, InCell(1, StrNUL)>> >>,
           <<Ref(TotalColumns, 1), <<Int7>> >>,
           <<Ref(TotalColumns, 1), <<StrN, StrAmp>> >>,
           << <<"A", "0">>, <<Int7>> >> }

\* The getRowValues calls of the model, <<hrow, hcol, vcol>>: the first cell
\* of every row up to MaxRow, and the columns after the first of row 1.
ScanInputs ==
    { <<r, 1, 1>> : r \in 1..MaxRow } \cup { <<1, 2, TotalColumns>> }

\* The numbers of elements a failing write or read transfers before it
\* fails: none, or one.
PartialCounts == {0, 1}

Faults(kinds) ==
    {NoFault}
    \cup { [kind |-> k, m |-> 0] : k \in kinds \cap {"create", "stat", "seek"} }
    \cup { [kind |-> k, m |-> m] : k \in kinds \cap {"write", "read"},
                                   m \in PartialCounts }

\* A fault is part of a call only when the call meets it: r is the call's
\* result under the fault and r0 its result without one.  At most MaxFaults
\* calls of a behaviour meet a fault.
Met(io, r, r0) == io = NoFault \/ (hist.faults < MaxFaults /\ r # r0)

\* The cells a successful SetRow(axis, values) has written, with the text the
\* encoder produced for each; first says no earlier call wrote a marker of
\* the same row.
CellsOf(axis, values, rows) ==
    LET c == CellNameToCoordinates(axis)
    IN  [i \in 1..Len(values) |->
            [row |-> c.row, col |-> c.col + i - 1,
             V |-> setCellValFunc(values[i]).V, first |-> c.row \notin rows]]

\* ------------------------------------------------------------ the actions

Install(w) ==
    /\ rawData' = w.rawData
    /\ tmpfile' = w.tmpfile
    /\ File' = w.File

\* A call of the StreamWriter that met the fault io, r its result and r0 its
\* result without a fault; axis and values, or hrow, hcol and vcol, are its
\* arguments and res is what it returned besides the error.
Step(op, axis, values, hrow, hcol, vcol, io, r, r0, res) ==
    /\ Met(io, r, r0)
    /\ Install(r.w)
    /\ last' = Call(op, axis, values, hrow, hcol, vcol, io, r.err, res)
    /\ hist' = [hist EXCEPT
           !.n = @ + 1,
           !.emitted = IF op = "SetRow" /\ r.err = ""
                       THEN @ \o CellsOf(axis, values, hist.rows)
                       ELSE @,
           !.rows = IF op = "SetRow" /\ CellNameToCoordinates(axis).err = ""
                    THEN @ \cup {CellNameToCoordinates(axis).row}
                    ELSE @,
           !.clean = @ /\ op = "SetRow" /\ r.err = "",
           !.finalized = @ \/ (op = "Flush" /\ r.err = ""),
           !.faults = IF io # NoFault THEN @ + 1 ELSE @,
           !.order = IF op = "SetRow" /\ r.err = ""
                     THEN Append(@, CellNameToCoordinates(axis).row)
                     ELSE @,
           !.rowsok = @ /\ (op = "SetRow" => r.err = "")]
    /\ UNCHANGED tableParts

DoSetRow ==
    /\ hist.n < MaxOps
    /\ \E in \in SetRowInputs, io \in Faults({"create", "write"}) :
           Step("SetRow", in[1], in[2], 0, 0, 0, io,
                SetRow(World, in[1], in[2], io),
                SetRow(World, in[1], in[2], NoFault), <<>>)

DoGetRowValues ==
    /\ hist.n < MaxOps
    /\ \E in \in ScanInputs, io \in Faults({"write", "stat", "read"}) :
           LET Scan(r) ==
                   Step("getRowValues", <<>>, <<>>, in[1], in[2], in[3], io, r,
                        getRowValues(World, in[1], in[2], in[3], NoFault), r.res)
           IN  Scan(getRowValues(World, in[1], in[2], in[3], io))

DoFlush ==
    /\ hist.n < MaxOps
    /\ \E io \in Faults({"write", "seek", "read"}) :
           Step("Flush", <<>>, <<>>, 0, 0, 0, io,
                swFlush(World, tableParts, io),
                swFlush(World, tableParts, NoFault), <<>>)

Next == DoSetRow \/ DoGetRowValues \/ DoFlush

Spec == Init /\ [][Next]_vars

\* ------------------------------------------------ the session with a table
\* A StreamWriter that is given rows, tables and Flush, the storage failing
\* only under the scan of AddTable.

\* The SetRow calls: two values from column A in every row up to MaxRow
\* (texts in row 1, a text and a number below it), one number in A1 (so that
\* B1 has no cell), and from B1 an absent value and a text with a character
\* XML does not allow.
TableRowInputs ==
    { <<Ref(1, r), IF r = 1 THEN <<StrN, StrAmp>> ELSE <<StrAmp, Int12>> >>
          : r \in 1..MaxRow }
    \cup { <<Ref(1, 1), <<Int7>> >>,
           <<Ref(2, 1), <<NilVal, InCell(1, StrNUL)>> >> }

\* The AddTable calls, <<hcell, vcell, format>>: a rectangle of two rows, the
\* same with its corners exchanged, one row, one row with the corners
\* exchanged and reaching the last column, a corner that does not parse and a
\* format that does not parse.
TableInputs ==
    { <<Ref(1, 1), Ref(2, 2), FormatNone>>,
      <<Ref(2, 2), Ref(1, 1), FormatNone>>,
      <<Ref(1, 1), Ref(2, 1), FormatNone>>,
      <<Ref(TotalColumns, 1), Ref(1, 1), FormatNone>>,
      <<Ref(1, 1), <<"A", "0">>, FormatNone>>,
      <<Ref(1, 1), Ref(2, 2), FormatBad>> }

\* An AddTable call that met the fault io, r its result and r0 its result
\* without a fault.
TableStep(hcell, vcell, format, io, r, r0) ==
    /\ Met(io, r, r0)
    /\ Install(r.w)
    /\ tableParts' = r.tableParts
    /\ last' = [op |-> "AddTable", axis |-> hcell, values |-> <<>>, hrow |-> 0,
                hcol |-> 0, vcol |-> 0, io |-> io, err |-> r.err, res |-> <<>>,
                vcell |-> vcell, format |-> format]
    /\ hist' = [hist EXCEPT !.n = @ + 1, !.clean = FALSE,
                            !.faults = IF io # NoFault THEN @ + 1 ELSE @]

DoAddTable ==
    /\ hist.n < MaxTableOps
    /\ \E in \in TableInputs, io \in Faults({"write", "stat", "read"}) :
           TableStep(in[1], in[2], in[3], io,
                     AddTable(World, tableParts, in[1], in[2], in[3], io),
                     AddTable(World, tableParts, in[1], in[2], in[3], NoFault))

TableSetRow ==
    /\ hist.n < MaxTableOps
    /\ \E in \in TableRowInputs :
           Step("SetRow", in[1], in[2], 0, 0, 0, NoFault,
                SetRow(World, in[1], in[2], NoFault),
                SetRow(World, in[1], in[2], NoFault), <<>>)

TableFlush ==
    /\ hist.n < MaxTableOps
    /\ Step("Flush", <<>>, <<>>, 0, 0, 0, NoFault,
            swFlush(World, tableParts, NoFault),
            swFlush(World, tableParts, NoFault), <<>>)

NextTable == TableSetRow \/ DoAddTable \/ TableFlush

SpecTable == Init /\ [][NextTable]_vars

\* ------------------------------------------------------- the cell encoder
\* SetRow calls that write one value at A1, the value drawn from the types
\* the encoder distinguishes.

\* The values: the empty text and a text; no value; a boolean; of the integer
\* types, small numbers of both signs, the ends of int and int64, and for
\* uint and uint64 the last number below half their range, the first at it
\* and the largest.
EncInputs ==
    { Val("string", <<>>, 0), StrN, NilVal, Val("bool", <<>>, 1) }
    \cup { Val(ty, <<>>, n) : ty \in {"int", "int8", "int64"}, n \in {-3, 0, 7} }
    \cup { Val(ty, <<>>, n) : ty \in {"int", "int64"},
                              n \in {0 - 2 ^ (IntBits - 1), 2 ^ (IntBits - 1) - 1} }
    \cup { Val(ty, <<>>, n) : ty \in {"uint8", "uint32"}, n \in {0, 7} }
    \cup { Val(ty, <<>>, n) : ty \in {"uint", "uint64"},
                              n \in {7, 2 ^ (IntBits - 1) - 1, 2 ^ (IntBits - 1),
                                     2 ^ IntBits - 1} }

EncSetRow ==
    /\ hist.n < MaxEncOps
    /\ \E v \in EncInputs :
           Step("SetRow", Ref(1, 1), <<v>>, 0, 0, 0, NoFault,
                SetRow(World, Ref(1, 1), <<v>>, NoFault),
                SetRow(World, Ref(1, 1), <<v>>, NoFault), <<>>)

NextEnc == EncSetRow

SpecEnc == Init /\ [][NextEnc]_vars

\* ------------------------------------------- the bufferedWriter on its own
\* A bufferedWriter driven directly: Write of the next bytes (the k-th byte
\* written is the number k), Sync, Flush, Reader and Bytes in any order.

InitBW ==
    /\ rawData = EmptyWorld.rawData
    /\ tmpfile = EmptyWorld.tmpfile
    /\ File = EmptyWorld.File
    /\ tableParts = <<>>
    /\ last = NoCall
    /\ hist = NoHistory

Written == Len(hist.emitted)

BWStep(op, io, r, r0, res) ==
    /\ Met(io, r, r0)
    /\ Install(r.w)
    /\ last' = Call(op, <<>>, <<>>, 0, 0, 0, io, r.err, res)
    /\ hist' = [hist EXCEPT !.faults = IF io # NoFault THEN @ + 1 ELSE @]
    /\ UNCHANGED tableParts

BWWrite ==
    \E k \in 1..MaxWrite :
        /\ Written + k <= MaxTotal
        /\ Install(Write(World, [i \in 1..k |-> Written + i]))
        /\ last' = Call("Write", <<>>, <<>>, 0, 0, 0, NoFault, "", <<>>)
        /\ hist' = [hist EXCEPT !.emitted = @ \o [i \in 1..k |-> Written + i]]
        /\ UNCHANGED tableParts

BWSync ==
    \E io \in Faults({"create", "write"}) :
        BWStep("Sync", io, Sync(World, io), Sync(World, NoFault), <<>>)

BWFlush ==
    \E io \in Faults({"write"}) :
        BWStep("Flush", io, bwFlush(World, io), bwFlush(World, NoFault), <<>>)

BWReader ==
    \E io \in Faults({"write", "stat"}) :
        LET Read(r) == BWStep("Reader", io, r, Reader(World, NoFault), r.data)
        IN  Read(Reader(World, io))

BWBytes ==
    \E io \in Faults({"write", "seek", "read"}) :
        LET Read(r) == BWStep("Bytes", io, r, Bytes(World, NoFault), r.b)
        IN  Read(Bytes(World, io))

NextBW == BWWrite \/ BWSync \/ BWFlush \/ BWReader \/ BWBytes

SpecBW == InitBW /\ [][NextBW]_vars

\* The content a reader of the buffer is given: the temp file, then memory.
LogicalNow == Logical(World)

\* ================================================================== claims

\* The markup of a row: the opening marker of the row, the cells of the
\* first n values in argument order, the i-th at column col + i - 1 with the
\* encoder's tag and text and the Cell's style, and the closing marker.
RowMarkup(col, row, values, n) ==
    <<RowStart(row)>>
    \o [i \in 1..n |->
           CellTok(Ref(col + i - 1, row),
                   IF values[i].cell THEN values[i].style ELSE 0,
                   setCellValFunc(values[i]))]
    \o <<RowEnd>>

\* ---- C1
\* C1: with no storage fault so far, Bytes of the bufferedWriter returns, with
\* no error, exactly the bytes written, in the order written, whatever Sync,
\* Flush, Reader and earlier Bytes calls came between and however many times
\* the buffer spilled.
C1_BytesIsWhatWasWritten ==
    (last.op = "Bytes" /\ hist.faults = 0)
        => (last.err = "" /\ last.res = hist.emitted)

\* Bytes returned a content of more than two thresholds from the temp file.
C1_Witness ==
    /\ last.op = "Bytes"
    /\ hist.faults = 0
    /\ Written = 2 * chunk + 1
    /\ rawData.tmp = "open"
    /\ Len(last.res) = Written

\* ---- C2
\* C2: once a Flush of the StreamWriter has returned nil, every later SetRow
\* returns an error.
C2_SetRowAfterFlushRejected ==
    (hist.finalized /\ last.op = "SetRow") => last.err # ""

\* ---- C3
\* C3: once a Flush of the StreamWriter has returned nil, a SetRow call leaves
\* the artifact installed in File.XLSX as it is.
C3_ArtifactUnchangedBySetRow ==
    [][(hist.finalized /\ last'.op = "SetRow") => File'.XLSX = File.XLSX]_vars

\* ---- C4
\* C4: when Flush of the StreamWriter has returned, with or without an error,
\* no temp file is left open on disk.
C4_NoLiveStoreAfterFlush ==
    last.op = "Flush" => (rawData.tmp # "open" /\ ~tmpfile.live)

C6_MemoryIntactAfterFailedSync ==
    [][(last'.op = "Sync" /\ last'.err # "") => rawData'.buf = rawData.buf]_vars

\* C6 as amended: when the flush of a Sync fails after the write has
\* transferred m elements, these are the first m of the in-memory region, they
\* are in the temp file from the old cursor on, and the in-memory region holds
\* afterwards the rest, in order (all of it when m = 0).
C6_MemoryKeepsUnwritten ==
    [][(last'.op = "Sync" /\ last'.err # "")
         => LET pos == IF rawData.tmp = "nil" THEN 0 ELSE tmpfile.pos
                m   == tmpfile'.pos - pos
            IN  /\ 0 <= m /\ m < Len(rawData.buf)
                /\ rawData'.buf = SubSeq(rawData.buf, m + 1, Len(rawData.buf))
                /\ SubSeq(tmpfile'.data, pos + 1, pos + m) = SubSeq(rawData.buf, 1, m)]_vars

\* A Sync failed after one element of the region went to the temp file.
C6_Witness ==
    /\ last.op = "Sync"
    /\ last.err = "ErrIO"
    /\ last.io = [kind |-> "write", m |-> 1]
    /\ Len(rawData.buf) >= chunk - 1
    /\ tmpfile.pos >= 1

\* ---- C7
\* The first value the encoder rejects, 0 when it accepts them all.
EncFailAt(values) ==
    IF \E k \in 1..Len(values) : setCellValFunc(values[k]).err # ""
    THEN CHOOSE k \in 1..Len(values) :
             /\ setCellValFunc(values[k]).err # ""
             /\ \A j \in 1..(k - 1) : setCellValFunc(values[j]).err = ""
    ELSE 0

\* C7: when the start cell parses, the encoder fails on the k-th value and the
\* k cells fit the column limit, SetRow returns the encoder's error and the
\* buffer gains the opening row marker, the k-1 cells before the failure and
\* the closing row marker, and nothing else.
C7_EncoderFailureClosesRow ==
    [][LET c == CellNameToCoordinates(last'.axis)
           k == EncFailAt(last'.values)
       IN  (/\ last'.op = "SetRow"
            /\ c.err = ""
            /\ k > 0
            /\ c.col + k - 1 <= TotalColumns)
               => /\ last'.err = "ErrEnc"
                  /\ LogicalNow' = LogicalNow \o RowMarkup(c.col, c.row, last'.values, k - 1)
      ]_vars

\* SetRow failed on its second value of three: the buffer ends with the row
\* marker, the first cell and the closing marker.
C7_Witness ==
    /\ last.op = "SetRow"
    /\ last.err = "ErrEnc"
    /\ EncFailAt(last.values) = 2
    /\ Len(last.values) = 3
    /\ Len(LogicalNow) >= 3
    /\ SubSeq(LogicalNow, Len(LogicalNow) - 2, Len(LogicalNow))
           = RowMarkup(1, 1, last.values, 1)

\* ---- C8
\* C8: a SetRow(axis, values) that returns nil appends to the content exactly
\* one row element of the axis's row with Len(values) cells in argument
\* order, the i-th (0-based) referenced at column col + i.
C8_SetRowAppendsOneRow ==
    [][(last'.op = "SetRow" /\ last'.err = "")
         => LET c == CellNameToCoordinates(last'.axis)
            IN  /\ c.err = ""
                /\ LogicalNow' = LogicalNow
                       \o RowMarkup(c.col, c.row, last'.values, Len(last'.values))
      ]_vars

\* A successful SetRow from column B wrote two cells, at B1 and C1.
C8_Witness ==
    /\ last.op = "SetRow"
    /\ last.err = ""
    /\ last.axis = Ref(2, 1)
    /\ Len(last.values) = 2
    /\ Len(LogicalNow) >= 4
    /\ LogicalNow[Len(LogicalNow) - 2].ref = Ref(2, 1)
    /\ LogicalNow[Len(LogicalNow) - 1].ref = Ref(3, 1)

\* ---- C9
\* What getRowValues(r, c, c) returns in the current state, without a fault.
ReadBack(r, c) == getRowValues(World, r, c, c, NoFault)

\* The text with every character XML does not allow replaced by U+FFFD.
XMLText(V) == [i \in 1..Len(V) |-> IF V[i] = "NUL" THEN "U+FFFD" ELSE V[i]]

\* C9 as claimed: after successful SetRow calls only, for every value written
\* at (c, r), getRowValues(r, c, c) returns the text the encoder produced for
\* it.
C9_RoundTripEveryValue ==
    hist.clean =>
        \A i \in 1..Len(hist.emitted) :
            LET e == hist.emitted[i]
            IN  /\ ReadBack(e.row, e.col).err = ""
                /\ ReadBack(e.row, e.col).res = <<e.V>>

\* C9 as amended: after successful SetRow calls only, for every value written
\* at (c, r) by the first SetRow call that wrote row r, getRowValues(r, c, c)
\* returns the text the encoder produced for it with every character XML does
\* not allow replaced by U+FFFD, spilled or not.
C9_RoundTripFirstRow ==
    hist.clean =>
        \A i \in 1..Len(hist.emitted) :
            LET e == hist.emitted[i]
            IN  e.first => /\ ReadBack(e.row, e.col).err = ""
                           /\ ReadBack(e.row, e.col).res = <<XMLText(e.V)>>

\* After a spill, a text that needed escaping is read back from the temp
\* file as it was given.
C9_Witness ==
    /\ hist.clean
    /\ rawData.tmp = "open"
    /\ \E i \in 1..Len(hist.emitted) :
           LET e == hist.emitted[i]
           IN  /\ e.first
               /\ e.V = <<"&">>
               /\ ReadBack(e.row, e.col).res = <<e.V>>

\* ---- C10
\* The places of the row markers of number hrow in the content.
RowsAt(data, hrow) == { i \in 1..Len(data) : data[i].k = "row" /\ Atoi(data[i].a) = hrow }

\* The text of the cell at column col of the first row of number hrow in the
\* content, the empty text when that row has no such cell or there is no such
\* row.
CellTextAt(data, hrow, col) ==
    IF RowsAt(data, hrow) = {} THEN <<>>
    ELSE LET i0 == CHOOSE i \in RowsAt(data, hrow) : \A j \in RowsAt(data, hrow) : i <= j
             e  == CHOOSE i \in (i0 + 1)..Len(data) :
                       /\ data[i].k = "/row"
                       /\ \A j \in (i0 + 1)..(i - 1) : data[j].k # "/row"
             cs == { j \in (i0 + 1)..(e - 1) :
                       /\ data[j].k = "c"
                       /\ CellNameToCoordinates(data[j].ref).col = col }
         IN  IF cs = {} THEN <<>>
             ELSE UnescapeText(data[CHOOSE j \in cs : \A j2 \in cs : j2 <= j].v)

C10_AbsentRowReached ==
    /\ last.op = "getRowValues"
    /\ last.err = ""
    /\ RowsAt(LogicalNow, last.hrow) = {}
    /\ last.res = << <<>> >>

\* ---- C11
\* C11: an AddTable on a StreamWriter that already has a table returns an
\* error, so that a successful AddTable is always the first of its session
\* and the document holds one table file.
C11_SecondAddTableRejected ==
    (last.op = "AddTable" /\ last.err = "") => Len(File.tables) = 1

\* ---- C12
\* The table file the last AddTable saved.
LastTable == File.tables[Len(File.tables)]

\* The rectangle of the corner cells h and v as the claim describes it: the
\* smaller column and row first, and a second row when there is only one.
Rect(h, v) ==
    [c1 |-> Min(h.col, v.col), r1 |-> Min(h.row, v.row),
     c2 |-> Max(h.col, v.col),
     r2 |-> IF h.row = v.row THEN h.row + 1 ELSE Max(h.row, v.row)]

LastRect ==
    Rect(CellNameToCoordinates(last.axis), CellNameToCoordinates(last.vcell))

\* C12: a successful AddTable(hcell, vcell) saves a table whose reference is
\* that of the rectangle with its corners ordered and, when it had one row,
\* with the row below added (a rectangle of two or more rows keeps its rows),
\* and whose columns are those of the rectangle, named by the texts of its
\* top row in the buffer.
C12_RectangleNormalized ==
    (last.op = "AddTable" /\ last.err = "")
        => /\ LastTable.Ref = <<Ref(LastRect.c1, LastRect.r1),
                                Ref(LastRect.c2, LastRect.r2)>>
           /\ Len(LastTable.TableColumns) = LastRect.c2 - LastRect.c1 + 1
           /\ \A j \in 1..Len(LastTable.TableColumns) :
                  LastTable.TableColumns[j].Name
                      = CellTextAt(LogicalNow, LastRect.r1, LastRect.c1 + j - 1)

\* AddTable("C1", "A1") over a row 1 that starts with the text N: the
\* corners were exchanged and row 2 was added, and the first column is named
\* by A1.
C12_Witness ==
    /\ last.op = "AddTable"
    /\ last.err = ""
    /\ last.axis = Ref(TotalColumns, 1)
    /\ last.vcell = Ref(1, 1)
    /\ LastTable.Ref = <<Ref(1, 1), Ref(TotalColumns, 2)>>
    /\ LastTable.TableColumns[1].Name = <<"N">>

\* AddTable("B2", "A1") was given a rectangle of two rows with its corners
\* exchanged and saved it as A1:B2.
C12_InvertedReached ==
    /\ last.op = "AddTable"
    /\ last.err = ""
    /\ last.axis = Ref(2, 2)
    /\ LastTable.Ref = <<Ref(1, 1), Ref(2, 2)>>

\* ---- C13
\* The cells of hist.emitted at (col, row) that the first SetRow of the row
\* wrote.
FirstWritten(col, row) ==
    { i \in 1..Len(hist.emitted) :
        /\ hist.emitted[i].first
        /\ hist.emitted[i].row = row
        /\ hist.emitted[i].col = col }

\* C13 as claimed: after SetRow calls that all succeeded, a successful
\* AddTable gives the table one column per column of the rectangle, with the
\* IDs 1..n in column order, the name of a column being exactly the text
\* written in the rectangle's top row at that column.
C13_NamesAreWrittenTexts ==
    (last.op = "AddTable" /\ last.err = "" /\ hist.rowsok /\ ~hist.finalized)
        => /\ Len(LastTable.TableColumns) = LastRect.c2 - LastRect.c1 + 1
           /\ \A j \in 1..Len(LastTable.TableColumns) :
                  /\ LastTable.TableColumns[j].ID = j
                  /\ \A i \in FirstWritten(LastRect.c1 + j - 1, LastRect.r1) :
                         LastTable.TableColumns[j].Name = hist.emitted[i].V

\* C13 as amended: the name of a column is the text the encoder produced for
\* the value the first SetRow of the top row wrote at that column, with every
\* character XML does not allow replaced by U+FFFD, and the empty text when
\* that SetRow wrote no value there.
C13_NamesAreHeaderTexts ==
    (last.op = "AddTable" /\ last.err = "" /\ hist.rowsok /\ ~hist.finalized)
        => /\ Len(LastTable.TableColumns) = LastRect.c2 - LastRect.c1 + 1
           /\ \A j \in 1..Len(LastTable.TableColumns) :
                  /\ LastTable.TableColumns[j].ID = j
                  /\ \A i \in FirstWritten(LastRect.c1 + j - 1, LastRect.r1) :
                         LastTable.TableColumns[j].Name = XMLText(hist.emitted[i].V)
                  /\ FirstWritten(LastRect.c1 + j - 1, LastRect.r1) = {}
                         => LastTable.TableColumns[j].Name = <<>>

\* Rows 1 and 2 were written, the buffer has spilled, and AddTable("A1",
\* "B2") named the columns N and & after the texts of row 1, read from the
\* temp file.
C13_Witness ==
    /\ last.op = "AddTable"
    /\ last.err = ""
    /\ hist.rowsok /\ ~hist.finalized
    /\ rawData.tmp = "open"
    /\ hist.order = <<1, 2>>
    /\ LastTable.TableColumns = << [ID |-> 1, Name |-> <<"N">>],
                                   [ID |-> 2, Name |-> <<"&">>] >>

\* ---- C14
\* C14: a Flush that returns nil installs the whole content of the buffer,
\* the trailer included, as the sheet's artifact, removes the cached entries
\* of the sheet and leaves no content in memory and no open temp file; a
\* Flush that returns an error leaves the cached entries and the artifact
\* either all as they were or all replaced.
C14_FlushLeavesFileConsistent ==
    [][last'.op = "Flush"
         => IF last'.err = ""
            THEN /\ File'.XLSX = LogicalNow \o TrailerToks(tableParts)
                 /\ ~File'.Sheet /\ ~File'.checked
                 /\ rawData'.buf = <<>>
                 /\ rawData'.tmp # "open" /\ ~tmpfile'.live
            ELSE \/ /\ File'.Sheet = File.Sheet
                    /\ File'.checked = File.checked
                    /\ File'.XLSX = File.XLSX
                 \/ /\ ~File'.Sheet /\ ~File'.checked
                    /\ File'.XLSX = LogicalNow \o TrailerToks(tableParts)
      ]_vars

\* ---- C15
\* The row markers of a content, opening and closing, in document order.
RowMarkers(data) == SelectSeq(data, LAMBDA t : t.k \in {"row", "/row"})

\* The row markers of the rows numbered as in order: for each, the opening
\* marker with its number and the closing marker.
RECURSIVE MarkersOf(_)
MarkersOf(order) ==
    IF order = <<>> THEN <<>>
    ELSE <<RowStart(Head(order)), RowEnd>> \o MarkersOf(Tail(order))

Increasing(order) == \A i \in 1..(Len(order) - 1) : order[i] < order[i + 1]

SheetShape(x, parts) ==
    LET n == Len(HeaderToks)
        m == Len(TrailerToks(parts))
    IN  /\ Len(x) >= n + m
        /\ SubSeq(x, 1, n) = HeaderToks
        /\ SubSeq(x, Len(x) - m + 1, Len(x)) = TrailerToks(parts)
        /\ \A i \in (n + 1)..(Len(x) - m) : x[i].k \in {"row", "c", "/row"}

\* C19: the artifact a Flush installs has the shape of a finished sheet, with
\* a tableParts fragment if and only if a table was registered, whatever
\* calls came before, an earlier Flush included.
C19_InstalledArtifactShape ==
    (last.op = "Flush" /\ last.err = "")
        => /\ SheetShape(File.XLSX, tableParts)
           /\ (tableParts # <<>>) <=> (Len(File.tables) > 0)

\* ---- C20
\* The numbers of opening and of closing row markers of a content are equal.
Balanced(data) ==
    Cardinality({ i \in 1..Len(data) : data[i].k = "row" })
        = Cardinality({ i \in 1..Len(data) : data[i].k = "/row" })

\* C20: whatever SetRow returns, what it has appended to the content holds as
\* many closing as opening row markers.
C20_RowMarkersBalanced ==
    [][last'.op = "SetRow"
         => /\ Len(LogicalNow') >= Len(LogicalNow)
            /\ Balanced(SubSeq(LogicalNow', Len(LogicalNow) + 1, Len(LogicalNow')))
      ]_vars

\* ---- C16
\* The row element at the end of the content: its opening marker, one cell
\* and its closing marker.
LastRow == SubSeq(LogicalNow, Len(LogicalNow) - 2, Len(LogicalNow))

StrEmpty == Val("string", <<>>, 0)

\* C16 as claimed: the markup SetRow writes for an absent value differs from
\* the markup it writes for the empty text at the same cell.
C16_NilDiffersFromEmptyText ==
    (last.op = "SetRow" /\ last.err = "" /\ last.values = <<NilVal>>)
        => LastRow # RowMarkup(1, CellNameToCoordinates(last.axis).row, <<StrEmpty>>, 1)

\* C16 as amended: for the empty text and for an absent value alike, SetRow
\* writes at the cell a cell element with the string tag, no style, no
\* xml:space and no value element.
C16_NilIsEmptyText ==
    (last.op = "SetRow" /\ last.err = "" /\ last.values \in {<<NilVal>>, <<StrEmpty>>})
        => LastRow = <<RowStart(1),
                       Tok("c", <<>>, last.axis, 0, "str", "", <<>>),
                       RowEnd>>

\* SetRow("A1", nil) wrote the markup of the empty text.
C16_Witness ==
    /\ last.op = "SetRow"
    /\ last.err = ""
    /\ last.values = <<NilVal>>
    /\ LastRow = RowMarkup(1, 1, <<StrEmpty>>, 1)

\* ---- C17
\* C17: for a value of an integer type, SetRow writes a cell without a type
\* tag whose text is the decimal representation of that number.
C17_IntegerLiteralIsValue ==
    (/\ last.op = "SetRow"
     /\ last.err = ""
     /\ Len(last.values) = 1
     /\ last.values[1].ty \in IntFamily)
        => /\ LastRow[2].t = ""
           /\ LastRow[2].v = FormatInt(last.values[1].n)

\* ---- C18
\* The temp file's cursor before a call: a file created by the call starts
\* at 0.
CursorBefore == IF rawData.tmp = "nil" THEN 0 ELSE tmpfile.pos

\* What holds of every call whatever Sync returns: at most one temp file is
\* ever created; only a Sync that finds the in-memory region at or beyond
\* the threshold, and no temp file, creates it; a Sync below the threshold
\* returns nil and changes neither the in-memory region nor the store.
LazyStore ==
    /\ tmpfile'.created <= 1
    /\ (tmpfile'.created # tmpfile.created
          => /\ last'.op = "Sync"
             /\ Len(rawData.buf) >= chunk
             /\ rawData.tmp = "nil")
    /\ (last'.op = "Sync" /\ Len(rawData.buf) < chunk
          => /\ last'.err = ""
             /\ rawData' = rawData
             /\ tmpfile' = tmpfile)

C18_CreateFailedReached ==
    /\ last.op = "Sync"
    /\ last.err = ""
    /\ last.io.kind = "create"
    /\ rawData.tmp = "nil"
    /\ Len(rawData.buf) >= chunk

\* ---- C21
\* C21: whenever AddTable returns an error (bad format, bad coordinates, or
\* a failed scan of the header row), the tableParts fragment, the
\* relationships, the content types, the saved table files and the logical
\* content of the buffer are what they were before the call.
C21_AddTableAtomicOnError ==
    [][(last'.op = "AddTable" /\ last'.err # "")
         => /\ tableParts' = tableParts
            /\ File'.rels = File.rels
            /\ File'.types = File.types
            /\ File'.tables = File.tables
            /\ File'.XLSX = File.XLSX
            /\ (tmpfile'.data \o rawData'.buf) = (tmpfile.data \o rawData.buf)]_vars

\* An AddTable failed in its scan, the flush of the buffer to the temp file
\* having stopped after one element: that element is in the temp file, the
\* rest in memory, and no table is registered.
C21_Witness ==
    /\ last.op = "AddTable"
    /\ last.err = "ErrIO"
    /\ last.io = [kind |-> "write", m |-> 1]
    /\ rawData.tmp = "open"
    /\ rawData.buf # <<>>
    /\ tmpfile.pos = Len(tmpfile.data)
    /\ tmpfile.pos > chunk
    /\ File.tables = <<>>
    /\ tableParts = <<>>

\* An AddTable after a registered table returned an error: the table
\* registered before is still the only one.
C21_AfterTableReached ==
    /\ last.op = "AddTable"
    /\ last.err # ""
    /\ Len(File.tables) = 1
    /\ tableParts = <<TablePartsTok(1)>>

\* An AddTable failed because the temp file could not be read.
C21_ReadFaultReached ==
    /\ last.op = "AddTable"
    /\ last.err = "ErrIO"
    /\ last.io.kind \in {"stat", "read"}

\* An AddTable with a corner that does not parse returned the error.
C21_BadCornerReached ==
    /\ last.op = "AddTable"
    /\ last.err # ""
    /\ CellNameToCoordinates(last.vcell).err # ""

\* An AddTable whose format does not parse returned the error.
C21_BadFormatReached ==
    /\ last.op = "AddTable"
    /\ last.err = "ErrFormat"

\* An AddTable returned the error of the decoder: the header row is not
\* complete in the buffer.
C21_DecodeErrorReached ==
    /\ last.op = "AddTable"
    /\ last.err \notin {"", "ErrIO", "ErrFormat", "ErrAddr"}
    /\ last.io = NoFault

====
